---- MODULE Spec2Model ----
(***************************************************************************)
(* WorkZen HRMS: attendance check-in/check-out ledger and payroll          *)
(* generation, modelled from app/routes/attendance.py,                     *)
(* app/routes/payroll.py, app/utils/calculations.py and app/models.py.     *)
(*                                                                         *)
(* Time of day is counted in units of 12 seconds (300 units per hour), so  *)
(* that round(total_seconds / 3600, 2) is a real rounding: one hundredth   *)
(* of an hour is 3 units.  Hours are stored in hundredths of an hour.      *)
(* A nullable column is <<>> (NULL) or <<v>>.                              *)
(*                                                                         *)
(* Money columns (Numeric(10, 2)) hold cents.  Amounts being computed are  *)
(* in millionths of a currency unit, which is exact for a percentage of a  *)
(* percentage of an amount in cents; Decimal arithmetic is exact on them,  *)
(* and the float conversions in between are taken as exact too.            *)
(* Percentages of the settings are whole numbers.  A component value       *)
(* (Numeric(10, 4)) is held in ten-thousandths, of a currency unit or of   *)
(* a percent.                                                              *)
(***************************************************************************)
EXTENDS Integers, Sequences, FiniteSets, TLC

VARIABLES
    attendances,   \* table attendances: id -> row
    check_logs,    \* table attendance_logs, per attendance_id, in id order
    nextAttId,     \* the attendances id sequence
    nextLogId,     \* the attendance_logs id sequence
    today,         \* date.today()
    now,           \* datetime.now().time(), in 12-second units
    flashed,       \* the message flashed by the last finished request
    reqs,          \* requests in flight: slot -> what the request has read
    payroll_settings,   \* table payroll_settings: user -> NULL or the row
    salary_components,  \* table salary_components, per user, by display_order
    payrolls,      \* table payrolls: id -> row
    nextPayrollId, \* the payrolls id sequence
    resolved,      \* days, wage and component_amounts of the last salary calculation
    leaves,        \* table leaves: id -> row
    leave_count    \* leave_count of the last attendance page rendered

payVars == <<payroll_settings, salary_components, payrolls, nextPayrollId, resolved>>

leaveVars == <<leaves, leave_count>>

vars == <<attendances, check_logs, nextAttId, nextLogId, today, now, flashed, reqs,
          payroll_settings, salary_components, payrolls, nextPayrollId, resolved,
          leaves, leave_count>>

----------------------------------------------------------------------------
\* Bounds of the model

MaxDate == 2
MaxLogs == 4
MaxRequests == 4
MaxAttId == 2
MaxAdminRequests == 3
LongShift == 2500
MaxAdminMinute == 1

----------------------------------------------------------------------------
\* Program constants

UnitsPerHour == 300
UnitsPerMinute == 5
StandardDayHours == 800

Users == {"u1", "u2"}
Dates == 1..MaxDate
Statuses == {"Present", "Half Day", "Absent"}
Requests == 1..MaxRequests
AdminRequests == {r \in Requests : r <= MaxAdminRequests}

None == <<>>
Some(x) == <<x>>

\* The times of day at which requests arrive: two a unit (12 s) apart, and
\* two more than eight hours later
Instants == {0, 1, LongShift, LongShift + 1}

AdminTimes == {None} \cup {Some(m * UnitsPerMinute) : m \in 0..MaxAdminMinute}

\* The attendance form submitted with the time fields left blank and the
\* status at its default
BlankForms == [date : Dates, check_in : {None}, check_out : {None},
               status : {"Absent"}]

\* Flash messages
CheckedIn == "Checked in successfully"
AlreadyCheckedIn == "You are already checked in. Please check out first."
CheckInError == "Error during check-in. Please try again."
NotCheckedInNoDay == "Please check in first before checking out."
NotCheckedIn == "You need to check in first before checking out."
CheckedOut == "Checked out successfully"
CheckOutError == "Error during check-out. Please try again."
RecordExists == "Attendance record already exists"
RecordCreated == "Attendance record created successfully"
CreateError == "Error creating attendance record. Please try again."
RecordUpdated == "Attendance record updated successfully!"
UpdateError == "Error updating attendance record. Please try again."
RecordDeleted == "Attendance record deleted successfully!"
NoFlash == "none"

----------------------------------------------------------------------------
\* Pure helpers

Min(S) == CHOOSE x \in S : \A y \in S : x <= y

Max0(x) == IF x > 0 THEN x ELSE 0

\* round(num / den) to the nearest integer, ties to even (Python's round)
RoundHalfEven(num, den) ==
    LET q == num \div den
        r == num % den
    IN  IF 2 * r < den THEN q
        ELSE IF 2 * r > den THEN q + 1
        ELSE IF q % 2 = 0 THEN q ELSE q + 1

\* round(duration / 3600, 2), in hundredths of an hour
RoundHours(units) == RoundHalfEven(units * 100, UnitsPerHour)

\* The loop of checkout over all_logs: the latest check_in before each
\* check_out is paired with it
RECURSIVE PairLoop(_, _, _, _)
PairLoop(all_logs, i, check_in_time, total_seconds) ==
    IF i > Len(all_logs) THEN total_seconds
    ELSE IF all_logs[i].log_type = "check_in"
         THEN PairLoop(all_logs, i + 1, Some(all_logs[i].timestamp), total_seconds)
    ELSE IF all_logs[i].log_type = "check_out" /\ check_in_time # None
         THEN PairLoop(all_logs, i + 1, None,
                       total_seconds + (all_logs[i].timestamp - check_in_time[1]))
    ELSE PairLoop(all_logs, i + 1, check_in_time, total_seconds)

\* (mutant) every check_out measured from the first check_in of the day
RECURSIVE FromFirstCheckIn(_, _)
FromFirstCheckIn(all_logs, i) ==
    IF i > Len(all_logs) THEN 0
    ELSE (IF all_logs[i].log_type = "check_out"
          THEN all_logs[i].timestamp - all_logs[1].timestamp ELSE 0)
         + FromFirstCheckIn(all_logs, i + 1)

TotalFromFirstCheckIn(all_logs) == FromFirstCheckIn(all_logs, 1)

CheckoutTotalSeconds(all_logs) == PairLoop(all_logs, 1, None, 0)

\* self.check_logs.order_by('timestamp').all().  The column holds
\* microseconds and the clock of the model is coarser: rows with the same
\* model time are returned in the order of their ids
OrderedByTimestamp(logs) ==
    LET p == CHOOSE q \in [1..Len(logs) -> 1..Len(logs)] :
                 \A i, j \in 1..Len(logs) :
                     i < j => \/ logs[q[i]].timestamp < logs[q[j]].timestamp
                              \/ /\ logs[q[i]].timestamp = logs[q[j]].timestamp
                                 /\ q[i] < q[j]
    IN  [i \in 1..Len(logs) |-> logs[p[i]]]

\* Attendance.calculate_working_hours: the inner loop, the index of the next
\* check_out after i (beyond the end when there is none)
NextCheckOut(logs, i) ==
    Min({j \in (i + 1)..Len(logs) : logs[j].log_type = "check_out"}
        \cup {Len(logs) + 1})

\* Attendance.calculate_working_hours: the outer loop over logs
RECURSIVE WorkingLoop(_, _, _)
WorkingLoop(logs, i, total_hours) ==
    IF i > Len(logs) THEN total_hours
    ELSE IF logs[i].log_type = "check_in"
         THEN IF NextCheckOut(logs, i) <= Len(logs)
              THEN WorkingLoop(logs, NextCheckOut(logs, i) + 1,
                       total_hours + (logs[NextCheckOut(logs, i)].timestamp
                                      - logs[i].timestamp))
              ELSE total_hours
    ELSE WorkingLoop(logs, i + 1, total_hours)

\* Attendance.calculate_working_hours on the rows as the query returned them
calculate_working_hours(logs) == WorkingLoop(logs, 1, 0)

\* working_hours of admin create / edit: from the two time fields
AdminWorkingHours(check_in_time, check_out_time) ==
    IF check_in_time # None /\ check_out_time # None
    THEN RoundHours(check_out_time[1] - check_in_time[1])
    ELSE 0

----------------------------------------------------------------------------
\* The database

\* Attendance.query.filter_by(user_id=u, date=d)
AttIds(u, d) == {i \in DOMAIN attendances :
                    attendances[i].user_id = u /\ attendances[i].date = d}

\* ... .first()
FirstAttendance(u, d) == IF AttIds(u, d) = {} THEN None ELSE Some(Min(AttIds(u, d)))

\* (mutant) the log query ordered by id ascending: the first event of the day
LastLogAscending(att) ==
    IF att = None \/ Len(check_logs[att[1]]) = 0 THEN None
    ELSE Some(check_logs[att[1]][1].log_type)

\* AttendanceLog.query.filter_by(attendance_id=id).order_by(id.desc()).first()
LastLog(att) ==
    IF att = None \/ Len(check_logs[att[1]]) = 0 THEN None
    ELSE Some(check_logs[att[1]][Len(check_logs[att[1]])].log_type)

\* (mutant) the table without its unique constraint
NoUniqueConstraint(id, u, d) == TRUE

\* UniqueConstraint('user_id', 'date'): may row id hold (u, d)?
UniqueUserDate(id, u, d) == AttIds(u, d) \subseteq {id}

NewLog(type, t) == [log_type |-> type, timestamp |-> t]

\* A flush writes only the columns the session changed since it loaded the row
Dirty(current, loaded, new) == IF new = loaded THEN current ELSE new

\* (mutant) check-in never refused
NeverDuplicateCheckin(last_log) == FALSE

\* checkin: if last_log and last_log.log_type == "check_in"
IsDuplicateCheckin(last_log) == last_log = Some("check_in")

\* (mutant) check-out refused only after a check_out, not on an empty log
DuplicateCheckoutOnly(last_log) == last_log = Some("check_out")

\* checkout: if not last_log or last_log.log_type == "check_out"
IsDuplicateCheckout(last_log) == last_log = None \/ last_log = Some("check_out")

----------------------------------------------------------------------------
\* checkin(): what it does with what it has read (att, last_log) at time t

CheckinWrite(u, d, t, att, last_log) ==
    IF att = None THEN
        IF UniqueUserDate(nextAttId, u, d) THEN
            /\ attendances' = attendances @@ (nextAttId :>
                   [user_id |-> u, date |-> d, check_in |-> Some(t),
                    check_out |-> None, status |-> "Present",
                    working_hours |-> 0, extra_hours |-> 0])
            /\ check_logs' = check_logs @@ (nextAttId :> <<NewLog("check_in", t)>>)
            /\ nextAttId' = nextAttId + 1
            /\ nextLogId' = nextLogId + 1
            /\ flashed' = CheckedIn
        ELSE
            \* IntegrityError at flush: rollback (the sequence value is spent)
            /\ nextAttId' = nextAttId + 1
            /\ flashed' = CheckInError
            /\ UNCHANGED <<attendances, check_logs, nextLogId>>
    ELSE IF IsDuplicateCheckin(last_log) THEN
        /\ flashed' = AlreadyCheckedIn
        /\ UNCHANGED <<attendances, check_logs, nextAttId, nextLogId>>
    ELSE IF att[1] \notin DOMAIN attendances THEN
        \* the row was deleted meanwhile: foreign key violation, rollback
        /\ flashed' = CheckInError
        /\ UNCHANGED <<attendances, check_logs, nextAttId, nextLogId>>
    ELSE
        /\ check_logs' = [check_logs EXCEPT ![att[1]] = Append(@, NewLog("check_in", t))]
        /\ nextLogId' = nextLogId + 1
        /\ flashed' = CheckedIn
        /\ UNCHANGED <<attendances, nextAttId>>

\* checkout(): what it does with what it has read
CheckoutWrite(t, att, last_log, loaded) ==
    IF att = None THEN
        /\ flashed' = NotCheckedInNoDay
        /\ UNCHANGED <<attendances, check_logs, nextAttId, nextLogId>>
    ELSE IF IsDuplicateCheckout(last_log) THEN
        /\ flashed' = NotCheckedIn
        /\ UNCHANGED <<attendances, check_logs, nextAttId, nextLogId>>
    ELSE IF att[1] \notin DOMAIN attendances THEN
        /\ flashed' = CheckOutError
        /\ UNCHANGED <<attendances, check_logs, nextAttId, nextLogId>>
    ELSE
        LET id == att[1]
            all_logs == Append(check_logs[id], NewLog("check_out", t))
            hours == RoundHours(CheckoutTotalSeconds(all_logs))
        IN  /\ check_logs' = [check_logs EXCEPT ![id] = all_logs]
            /\ attendances' = [attendances EXCEPT
                   ![id].check_out = Dirty(@, loaded.check_out, Some(t)),
                   ![id].working_hours = Dirty(@, loaded.working_hours, hours)]
            /\ nextLogId' = nextLogId + 1
            /\ flashed' = CheckedOut
            /\ UNCHANGED nextAttId

\* create(): the INSERT at commit
CreateWrite(u, d, check_in_time, check_out_time, status, existing) ==
    IF existing # None THEN
        /\ flashed' = RecordExists
        /\ UNCHANGED <<attendances, check_logs, nextAttId, nextLogId>>
    ELSE IF UniqueUserDate(nextAttId, u, d) THEN
        /\ attendances' = attendances @@ (nextAttId :>
               [user_id |-> u, date |-> d, check_in |-> check_in_time,
                check_out |-> check_out_time, status |-> status,
                working_hours |-> AdminWorkingHours(check_in_time, check_out_time),
                extra_hours |-> 0])
        /\ check_logs' = check_logs @@ (nextAttId :> <<>>)
        /\ nextAttId' = nextAttId + 1
        /\ flashed' = RecordCreated
        /\ UNCHANGED nextLogId
    ELSE
        /\ nextAttId' = nextAttId + 1
        /\ flashed' = CreateError
        /\ UNCHANGED <<attendances, check_logs, nextLogId>>

\* edit(): the UPDATE at commit, of the row loaded as `loaded`
EditWrite(id, new_date, check_in_time, check_out_time, status, loaded) ==
    IF id \notin DOMAIN attendances THEN
        /\ flashed' = UpdateError
        /\ UNCHANGED <<attendances, check_logs, nextAttId, nextLogId>>
    ELSE
        LET cur == attendances[id]
            date1 == Dirty(cur.date, loaded.date, new_date)
        IN  IF UniqueUserDate(id, cur.user_id, date1) THEN
                /\ attendances' = [attendances EXCEPT ![id] =
                       [cur EXCEPT
                           !.date = date1,
                           !.check_in = Dirty(@, loaded.check_in, check_in_time),
                           !.check_out = Dirty(@, loaded.check_out, check_out_time),
                           !.status = Dirty(@, loaded.status, status),
                           !.working_hours = Dirty(@, loaded.working_hours,
                               AdminWorkingHours(check_in_time, check_out_time))]]
                /\ flashed' = RecordUpdated
                /\ UNCHANGED <<check_logs, nextAttId, nextLogId>>
            ELSE
                /\ flashed' = UpdateError
                /\ UNCHANGED <<attendances, check_logs, nextAttId, nextLogId>>

----------------------------------------------------------------------------
\* Payroll: salary structures and the monthly salary calculation

\* January and December: the two branches of the month-end computation
PayMonths == {1, 12}
PayYears == {2025}

PayrollExists == "Payroll for this month already exists"
SetSalaryStructure == "Please set salary structure for the employee first"
ErrorCalculatingSalary == "Error calculating salary"
PayrollGenerated == "Payroll generated successfully!"
ServerError == "500 Internal Server Error"

\* cents -> millionths
Micro(cents) == cents * 10000

\* Decimal: x * percentage / 100
PercentOf(x, percentage) ==
    (x \div 100) * percentage + ((x % 100) * percentage) \div 100

\* A Fixed component value (ten-thousandths) as an amount
MicroOfValue(value) == value * 100

\* Decimal: x * value / 100, the value a percentage in ten-thousandths
PercentOfValue(x, value) ==
    PercentOf(x, value \div 10000) + PercentOf(x, value % 10000) \div 10000

\* A computed amount stored in a Numeric(10, 2) column: rounded to the cent,
\* halves away from zero
RoundCents(x) ==
    IF x >= 0 THEN (x + 5000) \div 10000 ELSE 0 - ((5000 - x) \div 10000)

RECURSIVE SumOver(_, _)
SumOver(f, S) ==
    IF S = {} THEN 0
    ELSE LET n == CHOOSE n \in S : TRUE
         IN  f[n] + SumOver(f, S \ {n})

\* dict.get(name, 0)
Get(component_amounts, name) ==
    IF name \in DOMAIN component_amounts THEN component_amounts[name] ELSE 0

\* Dates are day numbers, day 1 being 1 January 2025.  The days of 2025
\* before each month:
DaysBefore == <<0, 31, 59, 90, 120, 151, 181, 212, 243, 273, 304, 334>>

\* date(year, month, 1), for 2025 and 2026
FirstOfMonth(year, month) == (year - 2025) * 365 + DaysBefore[month] + 1

\* The last day of the month: the first of the next month less one day
LastOfMonth(year, month) ==
    IF month = 12 THEN FirstOfMonth(year + 1, 1) - 1
    ELSE FirstOfMonth(year, month + 1) - 1

\* get_attendance_days(user_id, month, year)
get_attendance_days(user_id, month, year) ==
    LET start_date == FirstOfMonth(year, month)
        end_date == LastOfMonth(year, month)
        rows(status) == {i \in DOMAIN attendances :
                            /\ attendances[i].user_id = user_id
                            /\ attendances[i].date >= start_date
                            /\ attendances[i].date <= end_date
                            /\ attendances[i].status = status}
    IN  [present_days |-> Cardinality(rows("Present")),
         half_days |-> Cardinality(rows("Half Day"))]

\* (mutant) the clipped interval counted without its last day
ClippedDaysExclusive(leave, start_date, end_date) ==
    LET leave_start == IF leave.start_date > start_date
                       THEN leave.start_date ELSE start_date
        leave_end == IF leave.end_date < end_date THEN leave.end_date ELSE end_date
    IN  IF leave_start <= leave_end THEN leave_end - leave_start ELSE 0

\* The days one leave adds to the total: those of the leave clipped to
\* [start_date, end_date], both ends included
ClippedDays(leave, start_date, end_date) ==
    LET leave_start == IF leave.start_date > start_date
                       THEN leave.start_date ELSE start_date
        leave_end == IF leave.end_date < end_date THEN leave.end_date ELSE end_date
    IN  IF leave_start <= leave_end THEN (leave_end - leave_start) + 1 ELSE 0

\* (mutant) requests still waiting for a decision counted with the Approved
UndecidedLeaveDays(user_id, start_date, end_date) ==
    LET found == {i \in DOMAIN leaves :
                     /\ leaves[i].user_id = user_id
                     /\ leaves[i].status \in {"Pending", "Approved"}
                     /\ leaves[i].start_date <= end_date
                     /\ leaves[i].end_date >= start_date}
    IN  SumOver([i \in found |-> ClippedDays(leaves[i], start_date, end_date)],
                found)

\* The Approved leaves of the user that touch [start_date, end_date], and
\* the loop over them
ApprovedLeaveDays(user_id, start_date, end_date) ==
    LET found == {i \in DOMAIN leaves :
                     /\ leaves[i].user_id = user_id
                     /\ leaves[i].status = "Approved"
                     /\ leaves[i].start_date <= end_date
                     /\ leaves[i].end_date >= start_date}
    IN  SumOver([i \in found |-> ClippedDays(leaves[i], start_date, end_date)],
                found)

\* get_approved_leaves(user_id, month, year)
get_approved_leaves(user_id, month, year) ==
    ApprovedLeaveDays(user_id, FirstOfMonth(year, month), LastOfMonth(year, month))

\* A component with a whole-number value
Component(name, computation_type, value, base_for_percentage) ==
    [name |-> name, computation_type |-> computation_type, value |-> value * 10000,
     base_for_percentage |-> base_for_percentage, is_active |-> TRUE]

\* The rows that registering an employee inserts
RegisteredSettings ==
    [basic_salary |-> Some(0), hra_percentage |-> 0, conveyance |-> 0,
     other_allowances |-> 0, pf_percentage |-> 12,
     professional_tax_amount |-> 20000]

\* What the tables may hold for one employee: no row (an account made by
\* sign-up), the row made at registration, rows of the four-field model
\* kept from before the component model (basic_salary set, or NULL), and
\* structures saved through the salary-structure form.
StoredStructures ==
    { [settings |-> None, components |-> <<>>],
      [settings |-> Some(RegisteredSettings), components |-> <<>>],
      [settings |-> Some([RegisteredSettings EXCEPT !.basic_salary = None]),
       components |-> <<>>],
      [settings |-> Some([RegisteredSettings EXCEPT !.basic_salary = None]),
       components |-> <<Component("Basic", "Percentage", 50, "Wage")>>],
      [settings |-> Some([basic_salary |-> Some(10000), hra_percentage |-> 40,
                          conveyance |-> 1000, other_allowances |-> 500,
                          pf_percentage |-> 12,
                          professional_tax_amount |-> 200]),
       components |-> <<>>],
      [settings |-> Some([RegisteredSettings EXCEPT
                             !.pf_percentage = 10,
                             !.professional_tax_amount = 15000]),
       components |-> <<Component("Basic", "Percentage", 50, "Wage"),
                        Component("House Rent Allowance", "Percentage", 50, "Basic"),
                        Component("Standard Allowance", "Fixed", 40, "Wage"),
                        Component("Fixed Allowance", "Fixed", 10, "Wage")>>] }

\* settings.salary_components.filter_by(is_active=True)
ActiveComponents(components) == SelectSeq(components, LAMBDA c : c.is_active)

\* PayrollSettings.wage of a row freshly loaded (no _wage attribute): the
\* sum of the active Fixed components if positive, else basic_salary or 0.
\* In millionths.
Wage(settings, components) ==
    LET active == ActiveComponents(components)
        fixed == {i \in DOMAIN active : active[i].computation_type = "Fixed"}
        total == SumOver([i \in fixed |-> MicroOfValue(active[i].value)], fixed)
    IN  IF active # <<>> /\ total > 0 THEN total
        ELSE IF settings.basic_salary # None /\ settings.basic_salary # Some(0)
             THEN Micro(settings.basic_salary[1])
             ELSE 0

\* generate: if not settings or (settings.wage == 0 and settings.basic_salary == 0)
NeedsSalaryStructure(settings, components) ==
    \/ settings = None
    \/ /\ Wage(settings[1], components) = 0
       /\ settings[1].basic_salary = Some(0)

\* (mutant) a wage of zero taken for a configured wage
SalaryPathNonNegative(settings, components) ==
    IF Wage(settings, components) >= 0 THEN "components"
    ELSE IF settings.basic_salary # None /\ settings.basic_salary[1] > 0 THEN "legacy"
    ELSE "none"

\* calculate_monthly_salary: which amount is the wage
SalaryPath(settings, components) ==
    IF Wage(settings, components) > 0 THEN "components"
    ELSE IF settings.basic_salary # None /\ settings.basic_salary[1] > 0 THEN "legacy"
    ELSE "none"

\* calculate_monthly_salary, component structure: the amounts by name
ComponentAmounts(wage, components) ==
    LET idx == DOMAIN components
        named(n) == components[CHOOSE i \in idx : components[i].name = n]
        names == {components[i].name : i \in idx}
        basic_amount ==
            IF "Basic" \in names
            THEN IF named("Basic").computation_type = "Percentage"
                 THEN PercentOfValue(wage, named("Basic").value)
                 ELSE MicroOfValue(named("Basic").value)
            ELSE 0
        first == {n \in names :
                    \/ n = "Basic"
                    \/ named(n).computation_type = "Fixed"
                    \/ /\ named(n).computation_type = "Percentage"
                       /\ named(n).base_for_percentage = "Wage"}
        second == {n \in names \ first :
                    /\ named(n).computation_type = "Percentage"
                    /\ named(n).base_for_percentage = "Basic"}
    IN  [n \in first \cup second |->
            IF n = "Basic" THEN basic_amount
            ELSE IF named(n).computation_type = "Fixed"
                 THEN MicroOfValue(named(n).value)
            ELSE IF n \in first THEN PercentOfValue(wage, named(n).value)
            ELSE PercentOfValue(basic_amount, named(n).value)]

\* calculate_monthly_salary, four-field structure.  Decimal(str(None))
\* raises.
LegacySalary(settings) ==
    IF settings.basic_salary = None THEN [outcome |-> "raise"]
    ELSE LET basic_salary == Micro(settings.basic_salary[1])
             hra == PercentOf(basic_salary, settings.hra_percentage)
         IN  [outcome |-> "ok",
              basic_salary |-> basic_salary,
              hra |-> hra,
              conveyance |-> Micro(settings.conveyance),
              other_allowances |-> Micro(settings.other_allowances),
              gross_salary |-> basic_salary + hra + Micro(settings.conveyance)
                               + Micro(settings.other_allowances)]

\* calculate_monthly_salary, component structure: component_amounts once
\* the remainder has been set on 'Fixed Allowance' or, when there is no such
\* component, added to 'Other Allowances'
ResolvedAmounts(wage, components) ==
    LET remainder ==
            IF \E i \in DOMAIN components : components[i].name = "Fixed Allowance"
            THEN "Fixed Allowance" ELSE "Other Allowances"
        Resolve(component_amounts) ==
            LET total_components ==
                    SumOver(component_amounts, DOMAIN component_amounts)
                remaining == wage - total_components
            IN  [n \in DOMAIN component_amounts \cup {remainder} |->
                    IF n = "Fixed Allowance" /\ n = remainder THEN Max0(remaining)
                    ELSE IF n = remainder
                         THEN Get(component_amounts, "Other Allowances")
                              + Max0(remaining)
                    ELSE component_amounts[n]]
    IN  Resolve(ComponentAmounts(wage, components))

\* calculate_monthly_salary, component structure
ComponentSalary(wage, components) ==
    LET Columns(total_components, final) ==
            [outcome |-> "ok",
             basic_salary |-> Get(final, "Basic"),
             hra |-> Get(final, "House Rent Allowance"),
             conveyance |-> Get(final, "Standard Allowance"),
             other_allowances |-> Get(final, "Performance Bonus")
                                  + Get(final, "Leave Travel Allowance")
                                  + Get(final, "Fixed Allowance")
                                  + Get(final, "Other Allowances"),
             gross_salary |-> IF "Fixed Allowance" \in DOMAIN final
                                 /\ \E i \in DOMAIN components :
                                       components[i].name = "Fixed Allowance"
                              THEN total_components + final["Fixed Allowance"]
                              ELSE total_components]
        Total(component_amounts) ==
            SumOver(component_amounts, DOMAIN component_amounts)
    IN  Columns(Total(ComponentAmounts(wage, components)),
                ResolvedAmounts(wage, components))

\* What a salary calculation on the component structure works with: the
\* days it counts, the wage and component_amounts; NULL on the four-field
\* structure
Resolution(user_id, month, year, settings, components) ==
    IF /\ settings # None
       /\ SalaryPath(settings[1], components) = "components"
       /\ ActiveComponents(components) # <<>>
    THEN Some([present_days |-> get_attendance_days(user_id, month, year).present_days,
               half_days |-> get_attendance_days(user_id, month, year).half_days,
               leave_days |-> get_approved_leaves(user_id, month, year),
               wage |-> Wage(settings[1], components),
               component_amounts |->
                   ResolvedAmounts(Wage(settings[1], components),
                                   ActiveComponents(components))])
    ELSE None

\* (mutant) the contribution taken at the default rate
PfAtDefaultRate(basic_salary, pf_percentage) == PercentOf(basic_salary, 12)

\* calculate_pf(basic_salary, pf_percentage)
calculate_pf(basic_salary, pf_percentage) == PercentOf(basic_salary, pf_percentage)

\* calculate_professional_tax(professional_tax_amount), in millionths
calculate_professional_tax(professional_tax_amount) == Micro(professional_tax_amount)

\* calculate_monthly_salary, from the wage on: None, an exception, or the
\* amounts (in millionths).  With a positive wage and no active component
\* use_new_structure is cleared inside its own branch, the four-field branch
\* is not entered, and the deductions read a basic_salary that was never
\* assigned.
MonthlyAmounts(settings, components) ==
    IF settings = None THEN [outcome |-> "none"]
    ELSE
    LET path == SalaryPath(settings[1], components)
        active == ActiveComponents(components)
        Net(amounts, pf_contribution, professional_tax) ==
            [outcome |-> "ok",
             basic_salary |-> amounts.basic_salary,
             hra |-> amounts.hra,
             conveyance |-> amounts.conveyance,
             other_allowances |-> amounts.other_allowances,
             gross_salary |-> amounts.gross_salary,
             pf_contribution |-> pf_contribution,
             professional_tax |-> professional_tax,
             other_deductions |-> 0,
             total_deductions |-> pf_contribution + professional_tax + 0,
             net_salary |-> amounts.gross_salary
                            - (pf_contribution + professional_tax + 0)]
        Deduct(amounts) ==
            IF amounts.outcome = "raise" THEN amounts
            ELSE Net(amounts,
                     calculate_pf(amounts.basic_salary, settings[1].pf_percentage),
                     calculate_professional_tax(
                         settings[1].professional_tax_amount))
    IN  IF path = "none" THEN [outcome |-> "none"]
        ELSE IF path = "components"
             THEN IF active # <<>>
                  THEN Deduct(ComponentSalary(Wage(settings[1], components), active))
                  ELSE [outcome |-> "raise"]
             ELSE Deduct(LegacySalary(settings[1]))

\* The days that calculate_monthly_salary counts before it computes amounts
MonthlyDays(user_id, month, year) ==
    LET total_days == (LastOfMonth(year, month) - FirstOfMonth(year, month)) + 1
        leave_days == get_approved_leaves(user_id, month, year)
    IN  [present_days |-> get_attendance_days(user_id, month, year).present_days,
         half_days |-> get_attendance_days(user_id, month, year).half_days,
         leave_days |-> leave_days,
         working_days |-> total_days - leave_days,
         total_days |-> total_days]

\* (mutant) gross and net prorated by the working days of the month
ProratedMonthlySalary(user_id, month, year, settings, components) ==
    LET Prorated(amounts, days, gross_salary) ==
            [amounts EXCEPT !.gross_salary = gross_salary,
                            !.net_salary = gross_salary - amounts.total_deductions]
            @@ days
        WithDays(amounts, days) ==
            IF amounts.outcome # "ok" THEN amounts
            ELSE Prorated(amounts, days,
                          (amounts.gross_salary \div days.total_days)
                          * days.working_days)
    IN  WithDays(MonthlyAmounts(settings, components),
                 MonthlyDays(user_id, month, year))

\* calculate_monthly_salary(user_id, month, year, settings): None, an
\* exception, or the amounts with the days counted
calculate_monthly_salary(user_id, month, year, settings, components) ==
    LET WithDays(amounts) ==
            IF amounts.outcome # "ok" THEN amounts
            ELSE amounts @@ MonthlyDays(user_id, month, year)
    IN  WithDays(MonthlyAmounts(settings, components))

PayrollIds(u, month, year) ==
    {i \in DOMAIN payrolls : /\ payrolls[i].user_id = u
                             /\ payrolls[i].month = month
                             /\ payrolls[i].year = year}

\* (mutant) generate without its look-up of an existing payroll
NoExistingPayroll(u, month, year) == None

\* Payroll.query.filter_by(user_id=, month=, year=).first()
ExistingPayroll(u, month, year) ==
    IF PayrollIds(u, month, year) = {} THEN None
    ELSE Some(Min(PayrollIds(u, month, year)))

\* (mutant) the payrolls table without its unique constraint
NoUniqueUserMonthYear(u, month, year) == TRUE

\* UniqueConstraint('user_id', 'month', 'year'): may a new row hold the key?
UniqueUserMonthYear(u, month, year) == PayrollIds(u, month, year) = {}

\* The row that generate adds, as the Numeric(10, 2) columns store it
PayrollRow(u, month, year, salary_data) ==
    [user_id |-> u, month |-> month, year |-> year,
     basic_salary |-> RoundCents(salary_data.basic_salary),
     hra |-> RoundCents(salary_data.hra),
     conveyance |-> RoundCents(salary_data.conveyance),
     other_allowances |-> RoundCents(salary_data.other_allowances),
     gross_salary |-> RoundCents(salary_data.gross_salary),
     pf_contribution |-> RoundCents(salary_data.pf_contribution),
     professional_tax |-> RoundCents(salary_data.professional_tax),
     other_deductions |-> RoundCents(salary_data.other_deductions),
     total_deductions |-> RoundCents(salary_data.total_deductions),
     net_salary |-> RoundCents(salary_data.net_salary),
     status |-> "Unpaid"]

\* generate(), POST: what it does once it has looked for an existing payroll.
\* The commit is not guarded: a violated constraint ends the request with a
\* server error and the session is rolled back; the id drawn from the
\* sequence is lost.
GenerateWrite(u, month, year, existing) ==
    /\ resolved' = IF existing # None
                      \/ NeedsSalaryStructure(payroll_settings[u], salary_components[u])
                   THEN None
                   ELSE Resolution(u, month, year, payroll_settings[u],
                                   salary_components[u])
    /\ LET settings == payroll_settings[u]
           Write(salary_data) ==
               IF salary_data.outcome = "raise" THEN
                   /\ flashed' = ServerError
                   /\ UNCHANGED <<payrolls, nextPayrollId>>
               ELSE IF salary_data.outcome = "none" THEN
                   /\ flashed' = ErrorCalculatingSalary
                   /\ UNCHANGED <<payrolls, nextPayrollId>>
               ELSE IF UniqueUserMonthYear(u, month, year) THEN
                   /\ payrolls' = [i \in DOMAIN payrolls \cup {nextPayrollId} |->
                                     IF i = nextPayrollId
                                     THEN PayrollRow(u, month, year, salary_data)
                                     ELSE payrolls[i]]
                   /\ nextPayrollId' = nextPayrollId + 1
                   /\ flashed' = PayrollGenerated
               ELSE
                   /\ flashed' = ServerError
                   /\ nextPayrollId' = nextPayrollId + 1
                   /\ UNCHANGED payrolls
       IN  IF existing # None THEN
               /\ flashed' = PayrollExists
               /\ UNCHANGED <<payrolls, nextPayrollId>>
           ELSE IF NeedsSalaryStructure(settings, salary_components[u]) THEN
               /\ flashed' = SetSalaryStructure
               /\ UNCHANGED <<payrolls, nextPayrollId>>
           ELSE Write(calculate_monthly_salary(u, month, year, settings,
                                               salary_components[u]))

----------------------------------------------------------------------------
\* The salary-structure form

WageMustBePositive == "Wage must be greater than 0"
PfOutOfRange == "PF percentage must be between 0 and 100"
TaxNegative == "Professional tax cannot be negative"
ComponentsExceedWage == "Total of all components exceeds wage"
StructureUpdated == "Salary structure updated successfully!"

\* A computed amount stored in the Numeric(10, 4) value column: rounded to
\* the ten-thousandth, halves away from zero
RoundValue(x) ==
    IF x >= 0 THEN (x + 50) \div 100 ELSE 0 - ((50 - x) \div 100)

\* The position of the first row of the form with this name, or 0
FirstNamed(components_data, name) ==
    IF \E i \in DOMAIN components_data : components_data[i].name = name
    THEN Min({i \in DOMAIN components_data : components_data[i].name = name})
    ELSE 0

\* salary_structure, second pass: the amount of the first 'Basic'
FormBasicAmount(wage, components_data) ==
    LET b == FirstNamed(components_data, "Basic")
    IN  IF b = 0 THEN 0
        ELSE IF components_data[b].computation_type = "Percentage"
             THEN PercentOfValue(wage, components_data[b].value)
             ELSE MicroOfValue(components_data[b].value)

\* salary_structure, third pass: the amount of row i (not 'Fixed Allowance')
FormAmount(wage, components_data, i) ==
    LET comp == components_data[i]
        basic_amount == FormBasicAmount(wage, components_data)
    IN  IF i = FirstNamed(components_data, "Basic") /\ basic_amount > 0
        THEN basic_amount
        ELSE IF comp.computation_type = "Fixed" THEN MicroOfValue(comp.value)
        ELSE IF comp.computation_type = "Percentage"
             THEN IF comp.base_for_percentage = "Basic" /\ basic_amount > 0
                  THEN PercentOfValue(basic_amount, comp.value)
                  ELSE PercentOfValue(wage, comp.value)
        ELSE 0

\* salary_structure, third pass: total_components before the remainder
FormTotal(wage, components_data) ==
    LET others == {i \in DOMAIN components_data :
                      components_data[i].name # "Fixed Allowance"}
    IN  SumOver([i \in others |-> FormAmount(wage, components_data, i)], others)

\* salary_structure, fourth pass: the amount of the first 'Fixed Allowance'
FormRemainder(wage, components_data) ==
    Max0(wage - FormTotal(wage, components_data))

\* (mutant) the total compared with the wage and one unit of currency
FormExceedsWageByAUnit(wage, components_data) ==
    FormTotal(wage, components_data)
      + (IF FirstNamed(components_data, "Fixed Allowance") # 0
         THEN FormRemainder(wage, components_data) ELSE 0)
    > wage + 1000000

\* salary_structure: total_components > wage + 0.01
FormExceedsWage(wage, components_data) ==
    FormTotal(wage, components_data)
      + (IF FirstNamed(components_data, "Fixed Allowance") # 0
         THEN FormRemainder(wage, components_data) ELSE 0)
    > wage + 10000

\* salary_structure: the errors of a submission, in the order they are flashed
StructureErrors(form) ==
    (IF form.wage <= 0 THEN <<WageMustBePositive>> ELSE <<>>)
    \o (IF form.pf_percentage < 0 \/ form.pf_percentage > 100
        THEN <<PfOutOfRange>> ELSE <<>>)
    \o (IF form.professional_tax_amount < 0 THEN <<TaxNegative>> ELSE <<>>)
    \o (IF FormExceedsWage(Micro(form.wage), form.components)
        THEN <<ComponentsExceedWage>> ELSE <<>>)

\* salary_structure: the component rows written, the value of the remainder
\* overwritten by its amount
StoredComponents(wage, components_data) ==
    [i \in DOMAIN components_data |->
        [name |-> components_data[i].name,
         computation_type |-> components_data[i].computation_type,
         value |-> IF i = FirstNamed(components_data, "Fixed Allowance")
                   THEN RoundValue(FormRemainder(wage, components_data))
                   ELSE components_data[i].value,
         base_for_percentage |-> components_data[i].base_for_percentage,
         is_active |-> TRUE]]

\* The component lists submitted
ComponentForms ==
    { <<Component("Basic", "Percentage", 50, "Wage"),
        Component("Fixed Allowance", "Fixed", 0, "Wage")>>,
      <<Component("Basic", "Percentage", 50, "Wage"),
        Component("House Rent Allowance", "Percentage", 50, "Basic"),
        Component("Fixed Allowance", "Fixed", 0, "Wage")>>,
      <<Component("House Rent Allowance", "Percentage", 50, "Basic"),
        Component("Basic", "Percentage", 50, "Wage"),
        Component("Fixed Allowance", "Fixed", 0, "Wage")>>,
      <<Component("Basic", "Percentage", 50, "Wage"),
        Component("Standard Allowance", "Fixed", 40, "Wage")>>,
      <<Component("Basic", "Percentage", 50, "Wage")>>,
      <<Component("Basic", "Percentage", 0, "Wage"),
        Component("House Rent Allowance", "Percentage", 50, "Basic"),
        Component("Fixed Allowance", "Fixed", 0, "Wage")>> }

\* The submissions: a wage in cents, the deductions at their defaults
StructureForms ==
    [wage : {0, 2013, 20000}, pf_percentage : {12},
     professional_tax_amount : {20000}, components : ComponentForms]

\* SalaryComponent.calculate_amount(wage, basic_amount), in millionths; a
\* basic_amount of None or of 0 is one the test "and basic_amount" refuses
calculate_amount(component, wage, basic_amount) ==
    IF component.computation_type = "Fixed" THEN MicroOfValue(component.value)
    ELSE IF component.computation_type = "Percentage"
         THEN IF component.base_for_percentage = "Basic" /\ basic_amount # 0
              THEN PercentOfValue(basic_amount, component.value)
              ELSE PercentOfValue(wage, component.value)
    ELSE 0

\* Component lists at the corners of the form: a total one cent and two
\* cents above the wage, a percentage of Basic without a Basic, a component
\* of the employer's own naming, and the plain two-row form
CornerComponentForms ==
    { <<Component("Basic", "Percentage", 100, "Wage"),
        [Component("Standard Allowance", "Fixed", 0, "Wage") EXCEPT !.value = 100]>>,
      <<Component("Basic", "Percentage", 100, "Wage"),
        [Component("Standard Allowance", "Fixed", 0, "Wage") EXCEPT !.value = 200]>>,
      <<Component("House Rent Allowance", "Percentage", 50, "Basic"),
        Component("Fixed Allowance", "Fixed", 0, "Wage")>>,
      <<Component("Basic", "Percentage", 50, "Wage"),
        Component("Special Allowance", "Fixed", 5, "Wage"),
        Component("Fixed Allowance", "Fixed", 0, "Wage")>>,
      <<Component("Basic", "Percentage", 50, "Wage"),
        Component("Fixed Allowance", "Fixed", 0, "Wage")>> }

\* Those lists submitted with a wage of 20.13 or of 200.00 and with
\* deductions that differ from the stored ones
CornerForms ==
    [wage : {2013, 20000}, pf_percentage : {8},
     professional_tax_amount : {25000}, components : CornerComponentForms]

\* (mutant) a saved structure carried into the payrolls the employee has
SaveStructureRecomputing(u, form) ==
    /\ payroll_settings[u] # None
    /\ IF StructureErrors(form) # <<>> THEN
           /\ flashed' = StructureErrors(form)[Len(StructureErrors(form))]
           /\ UNCHANGED <<payroll_settings, salary_components>>
       ELSE
           /\ payroll_settings' = [payroll_settings EXCEPT ![u] =
                  Some([@[1] EXCEPT
                          !.pf_percentage = form.pf_percentage,
                          !.professional_tax_amount = form.professional_tax_amount])]
           /\ salary_components' = [salary_components EXCEPT ![u] =
                  StoredComponents(Micro(form.wage), form.components)]
           /\ flashed' = StructureUpdated
    /\ payrolls' = IF StructureErrors(form) # <<>> THEN payrolls
                    ELSE [i \in DOMAIN payrolls |->
                            IF payrolls[i].user_id = u
                            THEN [payrolls[i] EXCEPT !.professional_tax =
                                      form.professional_tax_amount]
                            ELSE payrolls[i]]
    /\ UNCHANGED <<attendances, check_logs, nextAttId, nextLogId, today, now, reqs,
                   nextPayrollId, resolved>>
    /\ UNCHANGED leaveVars

\* salary_structure(user_id), POST, for an employee who has a settings row
SaveStructure(u, form) ==
    /\ payroll_settings[u] # None
    /\ IF StructureErrors(form) # <<>> THEN
           /\ flashed' = StructureErrors(form)[Len(StructureErrors(form))]
           /\ UNCHANGED <<payroll_settings, salary_components>>
       ELSE
           /\ payroll_settings' = [payroll_settings EXCEPT ![u] =
                  Some([@[1] EXCEPT
                          !.pf_percentage = form.pf_percentage,
                          !.professional_tax_amount = form.professional_tax_amount])]
           /\ salary_components' = [salary_components EXCEPT ![u] =
                  StoredComponents(Micro(form.wage), form.components)]
           /\ flashed' = StructureUpdated
    /\ UNCHANGED <<attendances, check_logs, nextAttId, nextLogId, today, now, reqs,
                   payrolls, nextPayrollId, resolved>>
    /\ UNCHANGED leaveVars

----------------------------------------------------------------------------
\* Leave requests

DatesRequired == "Start date and end date are required"
LeaveProcessed == "This leave request has already been processed"
LeaveApproved == "Leave request approved successfully!"
LeaveRejected == "Leave request rejected"
OnlyPendingDeleted == "You can only delete pending leave requests"
LeaveDeleted == "Leave request deleted successfully!"
Forbidden == "403 Forbidden"

\* Who approves and rejects
Approvers == {"admin"}

\* First and last days of the leaves: 27 December 2024, 3 January, 9 February
\* and 26 December 2025; 5 and 8 January, 14 February 2025, 5 January 2026
LeaveStarts == {-4, 3, 40, 360}
LeaveEnds == {5, 8, 45, 370}

\* A row of the leaves table
Leave(user_id, start_date, end_date, status) ==
    [user_id |-> user_id, start_date |-> start_date, end_date |-> end_date,
     status |-> status,
     approved_by |-> IF status = "Pending" THEN None ELSE Some("admin")]

\* The dates of an application: both given, or one left blank
LeaveForms == [start_date : {None} \cup {Some(d) : d \in LeaveStarts},
               end_date : {Some(d) : d \in LeaveEnds}]

\* The message apply() has for an application that overlaps a request
LeavesOverlap == "You already have leave(s) for overlapping dates"

\* apply(): the filter of the overlap query as it is written, over the
\* Pending and Approved requests of the employee
overlapping_leaves(u, start, end) ==
    {i \in DOMAIN leaves :
        /\ leaves[i].user_id = u
        /\ leaves[i].status \in {"Pending", "Approved"}
        /\ \/ leaves[i].start_date <= start /\ leaves[i].end_date >= start
           \/ leaves[i].start_date <= end /\ leaves[i].end_date >= end
           \/ leaves[i].start_date >= start /\ leaves[i].end_date <= end}

\* apply(), POST.  With both dates given the overlap query is built with
\* and_, a name the module does not import: the request ends in a server
\* error before any row is added.
Apply(u, form) ==
    /\ flashed' = IF form.start_date = None \/ form.end_date = None
                  THEN DatesRequired ELSE ServerError
    /\ UNCHANGED <<attendances, check_logs, nextAttId, nextLogId, today, now, reqs>>
    /\ UNCHANGED payVars
    /\ UNCHANGED leaveVars

\* (mutant) approve without its look at the status
ApproveAnyStatus(leave_id, approver) ==
    /\ leave_id \in DOMAIN leaves
    /\ leaves' = [leaves EXCEPT ![leave_id].status = "Approved",
                                ![leave_id].approved_by = Some(approver)]
    /\ flashed' = LeaveApproved
    /\ UNCHANGED <<attendances, check_logs, nextAttId, nextLogId, today, now, reqs>>
    /\ UNCHANGED payVars
    /\ UNCHANGED leave_count

\* approve(leave_id), POST
Approve(leave_id, approver) ==
    /\ leave_id \in DOMAIN leaves
    /\ IF leaves[leave_id].status # "Pending" THEN
           /\ flashed' = LeaveProcessed
           /\ UNCHANGED leaves
       ELSE
           /\ leaves' = [leaves EXCEPT ![leave_id].status = "Approved",
                                       ![leave_id].approved_by = Some(approver)]
           /\ flashed' = LeaveApproved
    /\ UNCHANGED <<attendances, check_logs, nextAttId, nextLogId, today, now, reqs>>
    /\ UNCHANGED payVars
    /\ UNCHANGED leave_count

\* reject(leave_id), POST
Reject(leave_id, approver) ==
    /\ leave_id \in DOMAIN leaves
    /\ IF leaves[leave_id].status # "Pending" THEN
           /\ flashed' = LeaveProcessed
           /\ UNCHANGED leaves
       ELSE
           /\ leaves' = [leaves EXCEPT ![leave_id].status = "Rejected",
                                       ![leave_id].approved_by = Some(approver)]
           /\ flashed' = LeaveRejected
    /\ UNCHANGED <<attendances, check_logs, nextAttId, nextLogId, today, now, reqs>>
    /\ UNCHANGED payVars
    /\ UNCHANGED leave_count

\* delete(leave_id), POST, by the employee u
DeleteLeave(u, leave_id) ==
    /\ leave_id \in DOMAIN leaves
    /\ IF leaves[leave_id].user_id # u THEN
           /\ flashed' = Forbidden
           /\ UNCHANGED leaves
       ELSE IF leaves[leave_id].status # "Pending" THEN
           /\ flashed' = OnlyPendingDeleted
           /\ UNCHANGED leaves
       ELSE
           /\ leaves' = [i \in DOMAIN leaves \ {leave_id} |-> leaves[i]]
           /\ flashed' = LeaveDeleted
    /\ UNCHANGED <<attendances, check_logs, nextAttId, nextLogId, today, now, reqs>>
    /\ UNCHANGED payVars
    /\ UNCHANGED leave_count

\* list(), GET, of the attendance pages: the summary's leave count
ListAttendance(u, month, year) ==
    /\ leave_count' = ApprovedLeaveDays(u, FirstOfMonth(year, month),
                                        LastOfMonth(year, month))
    /\ UNCHANGED <<attendances, check_logs, nextAttId, nextLogId, today, now, reqs,
                   flashed, leaves>>
    /\ UNCHANGED payVars

----------------------------------------------------------------------------
\* Requests executed one at a time

IdleReqs == [r \in Requests |-> [pc |-> "new"]]

CheckIn(u) ==
    /\ nextAttId <= MaxAttId \/ AttIds(u, today) # {}
    /\ nextLogId <= MaxLogs
    /\ LET att == FirstAttendance(u, today)
       IN  CheckinWrite(u, today, now, att, LastLog(att))
    /\ UNCHANGED payVars
    /\ UNCHANGED leaveVars
    /\ UNCHANGED <<today, now, reqs>>

CheckOut(u) ==
    /\ nextLogId <= MaxLogs
    /\ LET att == FirstAttendance(u, today)
       IN  CheckoutWrite(now, att, LastLog(att),
                         IF att = None THEN None ELSE attendances[att[1]])
    /\ UNCHANGED payVars
    /\ UNCHANGED leaveVars
    /\ UNCHANGED <<today, now, reqs>>

Create(u, form) ==
    /\ nextAttId <= MaxAttId
    /\ CreateWrite(u, form.date, form.check_in, form.check_out, form.status,
                   FirstAttendance(u, form.date))
    /\ UNCHANGED payVars
    /\ UNCHANGED leaveVars
    /\ UNCHANGED <<today, now, reqs>>

Edit(id, form) ==
    /\ id \in DOMAIN attendances
    /\ EditWrite(id, form.date, form.check_in, form.check_out, form.status,
                 attendances[id])
    /\ UNCHANGED payVars
    /\ UNCHANGED leaveVars
    /\ UNCHANGED <<today, now, reqs>>

Delete(id) ==
    /\ id \in DOMAIN attendances
    /\ attendances' = [i \in DOMAIN attendances \ {id} |-> attendances[i]]
    /\ check_logs' = [i \in DOMAIN check_logs \ {id} |-> check_logs[i]]
    /\ flashed' = RecordDeleted
    /\ UNCHANGED payVars
    /\ UNCHANGED leaveVars
    /\ UNCHANGED <<nextAttId, nextLogId, today, now, reqs>>

Tick ==
    /\ \E t \in Instants :
          /\ t > now
          /\ now' = t
    /\ UNCHANGED payVars
    /\ UNCHANGED leaveVars
    /\ UNCHANGED <<attendances, check_logs, nextAttId, nextLogId, today, flashed, reqs>>

NextDay ==
    /\ today < MaxDate
    /\ today' = today + 1
    /\ now' = 0
    /\ UNCHANGED payVars
    /\ UNCHANGED leaveVars
    /\ UNCHANGED <<attendances, check_logs, nextAttId, nextLogId, flashed, reqs>>

\* generate(), POST
Generate(u, month, year) ==
    /\ GenerateWrite(u, month, year, ExistingPayroll(u, month, year))
    /\ UNCHANGED <<attendances, check_logs, nextAttId, nextLogId, today, now, reqs,
                   payroll_settings, salary_components>>
    /\ UNCHANGED leaveVars

\* No leave request, no attendance page rendered
NoLeaves ==
    /\ leaves = <<>>
    /\ leave_count = 0

\* Empty attendance tables, no request in flight
InitAttendance ==
    /\ attendances = <<>>
    /\ check_logs = <<>>
    /\ nextAttId = 1
    /\ nextLogId = 1
    /\ today = 1
    /\ now = 0
    /\ flashed = NoFlash
    /\ reqs = IdleReqs

\* Every employee as registered, no payroll generated
Init ==
    /\ InitAttendance
    /\ payroll_settings = [u \in Users |-> Some(RegisteredSettings)]
    /\ salary_components = [u \in Users |-> <<>>]
    /\ payrolls = <<>>
    /\ nextPayrollId = 1
    /\ resolved = None
    /\ NoLeaves

\* Every employee with one of the stored structures, no payroll generated
InitPayroll ==
    /\ InitAttendance
    /\ \E stored \in [Users -> StoredStructures] :
          /\ payroll_settings = [u \in Users |-> stored[u].settings]
          /\ salary_components = [u \in Users |-> stored[u].components]
    /\ payrolls = <<>>
    /\ nextPayrollId = 1
    /\ resolved = None
    /\ NoLeaves

Next ==
    \/ \E u \in Users : CheckIn(u)
    \/ \E u \in Users : CheckOut(u)
    \/ Tick
    \/ NextDay

\* Employee requests executed one at a time, over several days
Spec == Init /\ [][Next]_vars

\* One day at the office: employee requests and the admin creating records
\* without times, executed one at a time
NextOffice ==
    \/ \E u \in Users : CheckIn(u)
    \/ \E u \in Users : CheckOut(u)
    \/ \E u \in Users, form \in BlankForms : Create(u, form)
    \/ Tick

SpecOffice == Init /\ [][NextOffice]_vars

----------------------------------------------------------------------------------------------------------------------------------------
\* Concurrent requests: a request reads (Begin...), other requests may run,
\* and then it writes and commits (Finish...).  The database runs READ
\* COMMITTED and the handlers take no lock.  Requests are numbered in the
\* order in which they arrive.

Arrives(r) ==
    /\ reqs[r].pc = "new"
    /\ \A q \in Requests : q < r => reqs[q].pc # "new"

Done == [pc |-> "done"]

BeginCheckin(r, u) ==
    /\ Arrives(r)
    /\ LET att == FirstAttendance(u, today)
       IN  reqs' = [reqs EXCEPT ![r] =
               [pc |-> "checkin", user |-> u, date |-> today, time |-> now,
                att |-> att, last_log |-> LastLog(att)]]
    /\ UNCHANGED payVars
    /\ UNCHANGED leaveVars
    /\ UNCHANGED <<attendances, check_logs, nextAttId, nextLogId, today, now, flashed>>

FinishCheckin(r) ==
    /\ reqs[r].pc = "checkin"
    /\ CheckinWrite(reqs[r].user, reqs[r].date, reqs[r].time, reqs[r].att,
                    reqs[r].last_log)
    /\ reqs' = [reqs EXCEPT ![r] = Done]
    /\ UNCHANGED payVars
    /\ UNCHANGED leaveVars
    /\ UNCHANGED <<today, now>>

BeginCheckout(r, u) ==
    /\ Arrives(r)
    /\ LET att == FirstAttendance(u, today)
       IN  reqs' = [reqs EXCEPT ![r] =
               [pc |-> "checkout", user |-> u, time |-> now,
                att |-> att, last_log |-> LastLog(att),
                loaded |-> IF att = None THEN None ELSE attendances[att[1]]]]
    /\ UNCHANGED payVars
    /\ UNCHANGED leaveVars
    /\ UNCHANGED <<attendances, check_logs, nextAttId, nextLogId, today, now, flashed>>

FinishCheckout(r) ==
    /\ reqs[r].pc = "checkout"
    /\ CheckoutWrite(reqs[r].time, reqs[r].att, reqs[r].last_log, reqs[r].loaded)
    /\ reqs' = [reqs EXCEPT ![r] = Done]
    /\ UNCHANGED payVars
    /\ UNCHANGED leaveVars
    /\ UNCHANGED <<today, now>>

BeginCreate(r, u, form) ==
    /\ Arrives(r)
    /\ reqs' = [reqs EXCEPT ![r] =
           [pc |-> "create", user |-> u, form |-> form,
            existing |-> FirstAttendance(u, form.date)]]
    /\ UNCHANGED payVars
    /\ UNCHANGED leaveVars
    /\ UNCHANGED <<attendances, check_logs, nextAttId, nextLogId, today, now, flashed>>

FinishCreate(r) ==
    /\ reqs[r].pc = "create"
    /\ CreateWrite(reqs[r].user, reqs[r].form.date, reqs[r].form.check_in,
                   reqs[r].form.check_out, reqs[r].form.status, reqs[r].existing)
    /\ reqs' = [reqs EXCEPT ![r] = Done]
    /\ UNCHANGED payVars
    /\ UNCHANGED leaveVars
    /\ UNCHANGED <<today, now>>

BeginEdit(r, id, form) ==
    /\ Arrives(r)
    /\ id \in DOMAIN attendances
    /\ reqs' = [reqs EXCEPT ![r] =
           [pc |-> "edit", id |-> id, form |-> form, loaded |-> attendances[id]]]
    /\ UNCHANGED payVars
    /\ UNCHANGED leaveVars
    /\ UNCHANGED <<attendances, check_logs, nextAttId, nextLogId, today, now, flashed>>

FinishEdit(r) ==
    /\ reqs[r].pc = "edit"
    /\ EditWrite(reqs[r].id, reqs[r].form.date, reqs[r].form.check_in,
                 reqs[r].form.check_out, reqs[r].form.status, reqs[r].loaded)
    /\ reqs' = [reqs EXCEPT ![r] = Done]
    /\ UNCHANGED payVars
    /\ UNCHANGED leaveVars
    /\ UNCHANGED <<today, now>>

\* Concurrent employee requests
NextConc ==
    \/ \E r \in Requests, u \in Users : BeginCheckin(r, u)
    \/ \E r \in Requests : FinishCheckin(r)
    \/ \E r \in Requests, u \in Users : BeginCheckout(r, u)
    \/ \E r \in Requests : FinishCheckout(r)
    \/ Tick

SpecConc == Init /\ [][NextConc]_vars

\* Each request draws at most one id from the attendances sequence
RowIds == 1..MaxAdminRequests

\* Employee check-ins interleaved with admin create and edit
NextAdmin ==
    \/ \E r \in AdminRequests, u \in Users : BeginCheckin(r, u)
    \/ \E r \in AdminRequests : FinishCheckin(r)
    \/ \E r \in AdminRequests, u \in Users, form \in BlankForms :
          BeginCreate(r, u, form)
    \/ \E r \in AdminRequests : FinishCreate(r)
    \/ \E r \in AdminRequests, id \in RowIds, form \in BlankForms :
          BeginEdit(r, id, form)
    \/ \E r \in AdminRequests : FinishEdit(r)

SpecAdmin == Init /\ [][NextAdmin]_vars

\* The attendance form submitted for the first day with times of day in its
\* two time fields
TimedForms == [date : {1}, check_in : AdminTimes, check_out : AdminTimes,
               status : {"Present"}]

\* The employee whose record the admin corrects
DeskUsers == {"u1"}

\* The requests of one employee and the admin creating and editing that
\* employee's record with times, executed one at a time
NextDesk ==
    \/ \E u \in DeskUsers : CheckIn(u)
    \/ \E u \in DeskUsers : CheckOut(u)
    \/ \E u \in DeskUsers, form \in TimedForms : Create(u, form)
    \/ \E id \in RowIds, form \in TimedForms : Edit(id, form)
    \/ Tick

SpecDesk == Init /\ [][NextDesk]_vars

\* Payroll generation, requests executed one at a time
NextPayroll ==
    \E u \in Users, month \in PayMonths, year \in PayYears : Generate(u, month, year)

SpecPayroll == InitPayroll /\ [][NextPayroll]_vars

PayrollUpdated == "Payroll updated successfully!"

\* The amounts submitted for a payroll, in millionths: to the cent, or with a
\* fraction of a cent
PayrollForms ==
    { [basic_salary |-> Micro(1000), hra |-> Micro(250), conveyance |-> 0,
       other_allowances |-> 0, pf_contribution |-> Micro(120),
       professional_tax |-> Micro(200), other_deductions |-> Micro(50),
       status |-> "Paid"],
      [basic_salary |-> Micro(1000) + 4000, hra |-> 4000, conveyance |-> 0,
       other_allowances |-> 0, pf_contribution |-> 4000,
       professional_tax |-> 4000, other_deductions |-> 0,
       status |-> "Unpaid"] }

\* edit(payroll_id), POST; the payroll's own module names it edit
EditPayroll(payroll_id, form) ==
    /\ payroll_id \in DOMAIN payrolls
    /\ LET gross_salary == form.basic_salary + form.hra + form.conveyance
                           + form.other_allowances
           total_deductions == form.pf_contribution + form.professional_tax
                               + form.other_deductions
           net_salary == gross_salary - total_deductions
       IN  payrolls' = [payrolls EXCEPT ![payroll_id] =
               [@ EXCEPT !.basic_salary = RoundCents(form.basic_salary),
                         !.hra = RoundCents(form.hra),
                         !.conveyance = RoundCents(form.conveyance),
                         !.other_allowances = RoundCents(form.other_allowances),
                         !.gross_salary = RoundCents(gross_salary),
                         !.pf_contribution = RoundCents(form.pf_contribution),
                         !.professional_tax = RoundCents(form.professional_tax),
                         !.other_deductions = RoundCents(form.other_deductions),
                         !.total_deductions = RoundCents(total_deductions),
                         !.net_salary = RoundCents(net_salary),
                         !.status = form.status]]
    /\ flashed' = PayrollUpdated
    /\ UNCHANGED <<attendances, check_logs, nextAttId, nextLogId, today, now, reqs,
                   payroll_settings, salary_components, nextPayrollId, resolved>>
    /\ UNCHANGED leaveVars

\* Salary structures edited and payroll generated, one request at a time,
\* for one employee
StructureUsers == {"u1"}

NextStructure ==
    \/ \E u \in StructureUsers, form \in StructureForms : SaveStructure(u, form)
    \/ \E u \in StructureUsers, month \in PayMonths, year \in PayYears :
          Generate(u, month, year)

\* That employee with one of the stored structures, the others as registered
InitStructure ==
    /\ InitAttendance
    /\ \E stored \in StoredStructures :
          /\ payroll_settings = [u \in Users |->
                 IF u \in StructureUsers THEN stored.settings
                 ELSE Some(RegisteredSettings)]
          /\ salary_components = [u \in Users |->
                 IF u \in StructureUsers THEN stored.components ELSE <<>>]
    /\ payrolls = <<>>
    /\ nextPayrollId = 1
    /\ resolved = None
    /\ NoLeaves

SpecStructure == InitStructure /\ [][NextStructure]_vars

\* Payrolls generated from saved structures and edited, one request at a
\* time
NextPayslip ==
    \/ \E u \in StructureUsers, form \in StructureForms : SaveStructure(u, form)
    \/ \E u \in StructureUsers, month \in PayMonths, year \in PayYears :
          Generate(u, month, year)
    \/ \E payroll_id \in DOMAIN payrolls, form \in PayrollForms :
          EditPayroll(payroll_id, form)

SpecPayslip == InitStructure /\ [][NextPayslip]_vars

\* The stored structure that the form persists for wage 200.00
SavedStructure ==
    CHOOSE stored \in StoredStructures : Len(stored.components) = 4

\* Two requests of that employee, both touching January 2025, wait for a
\* decision; the structure is saved, no payroll generated
InitMonth ==
    /\ InitAttendance
    /\ payroll_settings = [u \in Users |->
           IF u \in StructureUsers THEN SavedStructure.settings
           ELSE Some(RegisteredSettings)]
    /\ salary_components = [u \in Users |->
           IF u \in StructureUsers THEN SavedStructure.components ELSE <<>>]
    /\ payrolls = <<>>
    /\ nextPayrollId = 1
    /\ resolved = None
    /\ \E u \in StructureUsers :
          leaves = <<Leave(u, -4, 5, "Pending"), Leave(u, 3, 8, "Pending")>>
    /\ leave_count = 0

\* A month of that employee: check-ins, decisions on the leave requests,
\* payroll generation; the salary structure stays as saved
NextMonth ==
    \/ \E u \in StructureUsers : CheckIn(u)
    \/ \E leave_id \in DOMAIN leaves, approver \in Approvers :
          Approve(leave_id, approver)
    \/ \E leave_id \in DOMAIN leaves, approver \in Approvers :
          Reject(leave_id, approver)
    \/ \E u \in StructureUsers, month \in PayMonths, year \in PayYears :
          Generate(u, month, year)

SpecMonth == InitMonth /\ [][NextMonth]_vars

\* The submissions of one wage with two components: one accepted, one
\* rejected
FrameForms ==
    {form \in StructureForms : form.wage = 2013 /\ Len(form.components) = 2}

\* The edits that mark a payroll as paid
PaidForms == {form \in PayrollForms : form.status = "Paid"}

\* A saved structure and one leave request waiting for a decision
InitFrame ==
    /\ InitAttendance
    /\ payroll_settings = [u \in Users |->
           IF u \in StructureUsers THEN SavedStructure.settings
           ELSE Some(RegisteredSettings)]
    /\ salary_components = [u \in Users |->
           IF u \in StructureUsers THEN SavedStructure.components ELSE <<>>]
    /\ payrolls = <<>>
    /\ nextPayrollId = 1
    /\ resolved = None
    /\ \E u \in StructureUsers : leaves = <<Leave(u, -4, 5, "Pending")>>
    /\ leave_count = 0

\* Everything that happens around the payrolls of an employee
NextFrame ==
    \/ \E u \in StructureUsers, form \in FrameForms : SaveStructure(u, form)
    \/ \E u \in StructureUsers : CheckIn(u)
    \/ \E u \in StructureUsers : CheckOut(u)
    \/ \E id \in DOMAIN attendances, form \in BlankForms :
          form.date = attendances[id].date /\ Edit(id, form)
    \/ \E u \in StructureUsers, form \in LeaveForms : Apply(u, form)
    \/ \E leave_id \in DOMAIN leaves, approver \in Approvers :
          Approve(leave_id, approver)
    \/ \E leave_id \in DOMAIN leaves, approver \in Approvers :
          Reject(leave_id, approver)
    \/ \E u \in StructureUsers, month \in PayMonths, year \in PayYears :
          Generate(u, month, year)
    \/ \E payroll_id \in DOMAIN payrolls, form \in PaidForms :
          EditPayroll(payroll_id, form)

SpecFrame == InitFrame /\ [][NextFrame]_vars

\* The leave requests a table is drawn from
LeaveRows ==
    {Leave(u, start_date, end_date, status) :
        u \in Users, start_date \in LeaveStarts,
        end_date \in LeaveEnds, status \in {"Pending", "Approved"}}

\* Any two requests that end no earlier than they start
InitLeaveDays ==
    /\ InitAttendance
    /\ payroll_settings = [u \in Users |-> Some(RegisteredSettings)]
    /\ salary_components = [u \in Users |-> <<>>]
    /\ payrolls = <<>>
    /\ nextPayrollId = 1
    /\ resolved = None
    /\ \E first, second \in {row \in LeaveRows : row.start_date <= row.end_date} :
          leaves = <<first, second>>
    /\ leave_count = 0

\* The attendance page of a month rendered for an employee
NextLeaveDays ==
    \E u \in Users, month \in PayMonths, year \in PayYears :
        ListAttendance(u, month, year)

SpecLeaveDays == InitLeaveDays /\ [][NextLeaveDays]_vars

\* Corner submissions of the salary-structure form, and payroll generation
NextCorner ==
    \/ \E u \in StructureUsers, form \in CornerForms : SaveStructure(u, form)
    \/ \E u \in StructureUsers, month \in PayMonths, year \in PayYears :
          Generate(u, month, year)

SpecCorner == InitStructure /\ [][NextCorner]_vars

\* Do the two requests share a day?
ShareADay(first, second) ==
    first.start_date <= second.end_date /\ second.start_date <= first.end_date

\* Two requests waiting for a decision, of one employee or of two, that
\* share no day when they are of the same employee
InitLeave ==
    /\ InitAttendance
    /\ payroll_settings = [u \in Users |-> Some(RegisteredSettings)]
    /\ salary_components = [u \in Users |-> <<>>]
    /\ payrolls = <<>>
    /\ nextPayrollId = 1
    /\ resolved = None
    /\ \E first, second \in {row \in LeaveRows : /\ row.start_date <= row.end_date
                                                 /\ row.status = "Pending"} :
          /\ first.user_id = second.user_id => ~ShareADay(first, second)
          /\ leaves = <<first, second>>
    /\ leave_count = 0

\* The leave requests of the employees: applications, decisions, deletions
NextLeave ==
    \/ \E u \in Users, form \in LeaveForms : Apply(u, form)
    \/ \E leave_id \in DOMAIN leaves, approver \in Approvers :
          Approve(leave_id, approver)
    \/ \E leave_id \in DOMAIN leaves, approver \in Approvers :
          Reject(leave_id, approver)
    \/ \E u \in Users, leave_id \in DOMAIN leaves : DeleteLeave(u, leave_id)

SpecLeave == InitLeave /\ [][NextLeave]_vars

BeginGenerate(r, u, month, year) ==
    /\ Arrives(r)
    /\ reqs' = [reqs EXCEPT ![r] =
           [pc |-> "generate", user |-> u, month |-> month, year |-> year,
            existing |-> ExistingPayroll(u, month, year)]]
    /\ UNCHANGED payVars
    /\ UNCHANGED leaveVars
    /\ UNCHANGED <<attendances, check_logs, nextAttId, nextLogId, today, now, flashed>>

FinishGenerate(r) ==
    /\ reqs[r].pc = "generate"
    /\ GenerateWrite(reqs[r].user, reqs[r].month, reqs[r].year, reqs[r].existing)
    /\ reqs' = [reqs EXCEPT ![r] = Done]
    /\ UNCHANGED <<attendances, check_logs, nextAttId, nextLogId, today, now,
                   payroll_settings, salary_components>>
    /\ UNCHANGED leaveVars

\* Concurrent payroll generation
NextPayConc ==
    \/ \E r \in AdminRequests, u \in Users, month \in PayMonths, year \in PayYears :
          BeginGenerate(r, u, month, year)
    \/ \E r \in AdminRequests : FinishGenerate(r)

SpecPayConc == InitPayroll /\ [][NextPayConc]_vars

----------------------------------------------------------------------------
\* Claims

IsCheckIn(log) == log.log_type = "check_in"
IsCheckOut(log) == log.log_type = "check_out"

\* The hours of a log as the specification states them: each check_in is
\* matched with the next later check_out, in insertion order; a check_in with
\* no later check_out contributes nothing.  In 12-second units.
RECURSIVE PairSumFrom(_, _)
PairSumFrom(logs, i) ==
    IF i > Len(logs) THEN 0
    ELSE IF IsCheckIn(logs[i]) THEN
        LET later == {j \in (i + 1)..Len(logs) : IsCheckOut(logs[j])}
        IN  IF later = {} THEN 0
            ELSE (logs[Min(later)].timestamp - logs[i].timestamp)
                 + PairSumFrom(logs, Min(later) + 1)
    ELSE PairSumFrom(logs, i + 1)

PairSum(logs) == PairSumFrom(logs, 1)

Abs(x) == IF x < 0 THEN 0 - x ELSE x

\* hours (in hundredths) is a nearest hundredth of units / UnitsPerHour
NearestHundredth(hours, units) ==
    2 * Abs(hours * UnitsPerHour - units * 100) <= UnitsPerHour

\* The last event of the employee's day is a check_in
Dangling(u) ==
    \E id \in AttIds(u, today) :
        /\ check_logs[id] # <<>>
        /\ IsCheckIn(check_logs[id][Len(check_logs[id])])

\* No day for (u, today), or a day without events, or one ending in check_out
NoDangling(u) ==
    \/ AttIds(u, today) = {}
    \/ \E id \in AttIds(u, today) :
          \/ check_logs[id] = <<>>
          \/ IsCheckOut(check_logs[id][Len(check_logs[id])])

\* C1: under requests executed one at a time, every day's events alternate
\* check_in, check_out, check_in, ... starting with a check_in (so at most
\* one check_in is dangling, and it is the last event).
C1_Alternating ==
    \A id \in DOMAIN check_logs :
        \A i \in 1..Len(check_logs[id]) :
            check_logs[id][i].log_type =
                (IF i % 2 = 1 THEN "check_in" ELSE "check_out")

\* A day with check_in, check_out, check_in on which a further check-in has
\* just been refused
C1_Witness ==
    /\ flashed = AlreadyCheckedIn
    /\ \E id \in DOMAIN check_logs : Len(check_logs[id]) >= 3

\* C2: a check-in while the day's last event is a check_in is refused with
\* AlreadyCheckedIn, appends no event and changes no field of the day.
C2_AlreadyCheckedIn ==
    [][\A u \in Users :
          (CheckIn(u) /\ Dangling(u)) =>
              /\ flashed' = AlreadyCheckedIn
              /\ UNCHANGED <<attendances, check_logs>>]_vars

\* A refused check-in, with the day still holding its dangling check_in
C2_Witness ==
    /\ flashed = AlreadyCheckedIn
    /\ \E u \in Users : Dangling(u)

\* C3: a check-out with no dangling check_in for today (no day, a day without
\* events, or a day ending in check_out) is refused with NotCheckedIn, appends
\* no event and leaves the day unchanged.
C3_NotCheckedIn ==
    [][\A u \in Users :
          (CheckOut(u) /\ NoDangling(u)) =>
              /\ flashed' \in {NotCheckedInNoDay, NotCheckedIn}
              /\ UNCHANGED <<attendances, check_logs>>]_vars

\* A check-out refused on a day that exists but has no events
C3_Witness ==
    /\ flashed = NotCheckedIn
    /\ \E id \in DOMAIN attendances :
          /\ attendances[id].date = today
          /\ check_logs[id] = <<>>

\* C4: under interleaved check-in and check-out requests no day's log has two
\* consecutive check_in events or two consecutive check_out events.
C4_NoRepeatedEvent ==
    \A id \in DOMAIN check_logs :
        \A i \in 1..(Len(check_logs[id]) - 1) :
            check_logs[id][i].log_type # check_logs[id][i + 1].log_type

\* C5: at most one attendance row per (employee, date), under interleaved
\* check-ins, admin creates and admin edits.
C5_OneDayPerUserDate ==
    \A i, j \in DOMAIN attendances :
        (attendances[i].user_id = attendances[j].user_id
         /\ attendances[i].date = attendances[j].date) => i = j

\* An edit onto the date of another row of the employee has been rolled back
C5_Witness ==
    /\ flashed = UpdateError
    /\ Cardinality(DOMAIN attendances) = 2

\* C6 as stated: the stored worked-hours equal the sum of the paired
\* durations in hours exactly.
C6_ExactSum ==
    \A id \in DOMAIN attendances :
        attendances[id].working_hours * UnitsPerHour = PairSum(check_logs[id]) * 100

\* C6 amended: the stored worked-hours are the sum of the paired durations in
\* hours rounded to two decimals; an unmatched trailing check_in adds nothing.
C6_RoundedSum ==
    \A id \in DOMAIN attendances :
        NearestHundredth(attendances[id].working_hours, PairSum(check_logs[id]))

\* Two cycles of 12 seconds each checked out: 24 s = 0.0067 h, stored as 0.01
C6_Witness ==
    /\ flashed = CheckedOut
    /\ \E id \in DOMAIN attendances :
          /\ Len(check_logs[id]) = 4
          /\ PairSum(check_logs[id]) = 2
          /\ attendances[id].working_hours = 1

\* C7: every day's extra_hours is max(0, working_hours - 8.0).
C7_ExtraHours ==
    \A id \in DOMAIN attendances :
        attendances[id].extra_hours =
            Max0(attendances[id].working_hours - StandardDayHours)

\* The employee has no salary structure, or one whose wage is not positive
\* and whose basic salary is unset or not positive
NoPositiveWageOrBasic(u) ==
    \/ payroll_settings[u] = None
    \/ /\ Wage(payroll_settings[u][1], salary_components[u]) <= 0
       /\ \/ payroll_settings[u][1].basic_salary = None
          \/ payroll_settings[u][1].basic_salary[1] <= 0

\* C8: generating payroll for an (employee, month, year) that already has a
\* payroll is refused as a duplicate, adds no row, and leaves every field of
\* the existing row unchanged.
C8_DuplicatePayroll ==
    [][\A u \in Users, month \in PayMonths, year \in PayYears :
          (Generate(u, month, year) /\ PayrollIds(u, month, year) # {}) =>
              /\ flashed' = PayrollExists
              /\ payrolls' = payrolls]_vars

\* A second generation for a key has been refused; the first row is there
C8_Witness ==
    /\ flashed = PayrollExists
    /\ payrolls # <<>>

\* C9: under interleaved generate requests, each looking for an existing
\* payroll and inserting later, no (employee, month, year) has two payrolls.
C9_OnePayrollPerKey ==
    \A i, j \in DOMAIN payrolls :
        (/\ payrolls[i].user_id = payrolls[j].user_id
         /\ payrolls[i].month = payrolls[j].month
         /\ payrolls[i].year = payrolls[j].year) => i = j

\* Of two racing requests for one key, the second insert has been rejected:
\* the key has its row and an id of the sequence is lost
C9_Witness ==
    /\ flashed = ServerError
    /\ payrolls # <<>>
    /\ nextPayrollId > Cardinality(DOMAIN payrolls) + 1

\* C10: generating payroll for an employee without a salary structure, or
\* whose structure has neither a positive wage nor a positive basic salary
\* (an unset basic salary included), fails with a salary-structure error
\* (the request to set the structure, or the calculation error when the
\* basic salary is unset) and adds no payroll.
C10_MissingSalaryStructure ==
    [][\A u \in Users, month \in PayMonths, year \in PayYears :
          (Generate(u, month, year) /\ NoPositiveWageOrBasic(u)) =>
              /\ flashed' \in {SetSalaryStructure, ErrorCalculatingSalary}
              /\ payrolls' = payrolls]_vars

\* Generation has been refused for an employee whose basic salary is unset
C10_Witness ==
    /\ flashed = ErrorCalculatingSalary
    /\ \E u \in Users :
          /\ payroll_settings[u] # None
          /\ payroll_settings[u][1].basic_salary = None
          /\ NoPositiveWageOrBasic(u)

\* The sum of the amounts resolved for the components other than the
\* remainder
OthersTotal(component_amounts) ==
    SumOver(component_amounts, DOMAIN component_amounts \ {"Fixed Allowance"})

\* C11: when the structure has a 'Fixed Allowance' component, the amount
\* resolved for it is max(0, wage - the total of the other components): the
\* value stored on the remainder itself is not part of that total.
C11_RemainderAmount ==
    (resolved # None /\ "Fixed Allowance" \in DOMAIN resolved[1].component_amounts) =>
        resolved[1].component_amounts["Fixed Allowance"]
          = Max0(resolved[1].wage - OthersTotal(resolved[1].component_amounts))

\* C12: when the structure has a 'Fixed Allowance' component and the other
\* components total at most the wage, the resolved amounts, each counted
\* once, sum to the wage within 0.01.
C12_AmountsSumToWage ==
    (/\ resolved # None
     /\ "Fixed Allowance" \in DOMAIN resolved[1].component_amounts
     /\ OthersTotal(resolved[1].component_amounts) <= resolved[1].wage) =>
        Abs(SumOver(resolved[1].component_amounts,
                    DOMAIN resolved[1].component_amounts)
            - resolved[1].wage) <= 10000

\* C13: when the components other than the remainder total more than the
\* wage, generation reports the excess instead of clamping the remainder to
\* zero in silence: it stores no payroll whose components exceed the wage.
C13_ExcessNotPersisted ==
    [][\A u \in Users, month \in PayMonths, year \in PayYears :
          (/\ Generate(u, month, year)
           /\ resolved' # None
           /\ OthersTotal(resolved'[1].component_amounts) > resolved'[1].wage) =>
              payrolls' = payrolls]_vars

\* The amount the resolver is specified to give the component c of a list,
\* basicAmount being the amount of the component named 'Basic'
SpecifiedAmount(wage, components, c) ==
    LET b == FirstNamed(components, "Basic")
        basicAmount ==
            IF b = 0 THEN 0
            ELSE IF components[b].computation_type = "Fixed"
                 THEN MicroOfValue(components[b].value)
                 ELSE PercentOfValue(wage, components[b].value)
    IN  IF c.computation_type = "Fixed" THEN MicroOfValue(c.value)
        ELSE IF c.base_for_percentage = "Wage" THEN PercentOfValue(wage, c.value)
        ELSE PercentOfValue(basicAmount, c.value)

\* Each generation resolves every active component other than the remainder
\* to its specified amount, wherever 'Basic' stands in the list
GenerationResolvesAsSpecified ==
    [][\A u \in Users, month \in PayMonths, year \in PayYears :
          (Generate(u, month, year) /\ resolved' # None) =>
              LET active == ActiveComponents(salary_components[u])
              IN  \A i \in DOMAIN active :
                     active[i].name # "Fixed Allowance" =>
                        resolved'[1].component_amounts[active[i].name]
                          = SpecifiedAmount(resolved'[1].wage, active, active[i])]_vars

\* C14: every active component other than the remainder resolves, wherever
\* it stands in the list, to its literal value if Fixed, to wage * value / 100
\* if a percentage of Wage, and to basicAmount * value / 100 if a percentage of
\* Basic, basicAmount being the amount resolved for 'Basic'; both when
\* payroll is generated and when the salary-structure form is submitted.
C14_ResolvedAmounts ==
    [][/\ \A u \in Users, month \in PayMonths, year \in PayYears :
             (Generate(u, month, year) /\ resolved' # None) =>
                 LET active == ActiveComponents(salary_components[u])
                 IN  \A i \in DOMAIN active :
                        active[i].name # "Fixed Allowance" =>
                           resolved'[1].component_amounts[active[i].name]
                             = SpecifiedAmount(resolved'[1].wage, active, active[i])
       /\ \A u \in Users, form \in StructureForms :
             SaveStructure(u, form) =>
                 \A i \in DOMAIN form.components :
                    form.components[i].name # "Fixed Allowance" =>
                       FormAmount(Micro(form.wage), form.components, i)
                         = SpecifiedAmount(Micro(form.wage), form.components,
                                           form.components[i])]_vars

\* C15: every payroll, as generated and after any edits, has total_deductions
\* = pf_contribution + professional_tax + other_deductions and net_salary =
\* gross_salary - total_deductions.
C15_DeductionsAndNet ==
    \A i \in DOMAIN payrolls :
        /\ payrolls[i].total_deductions
             = payrolls[i].pf_contribution + payrolls[i].professional_tax
               + payrolls[i].other_deductions
        /\ payrolls[i].net_salary
             = payrolls[i].gross_salary - payrolls[i].total_deductions

C17_GrossIsSumOfAmounts ==
    [][\A u \in Users, month \in PayMonths, year \in PayYears :
          (/\ Generate(u, month, year)
           /\ nextPayrollId \in DOMAIN payrolls'
           /\ resolved' # None) =>
              payrolls'[nextPayrollId].gross_salary
                = RoundCents(SumOver(resolved'[1].component_amounts,
                                     DOMAIN resolved'[1].component_amounts))]_vars

\* The amounts of a payroll
Amounts(payroll) ==
    <<payroll.basic_salary, payroll.hra, payroll.conveyance,
      payroll.other_allowances, payroll.gross_salary, payroll.pf_contribution,
      payroll.professional_tax, payroll.other_deductions,
      payroll.total_deductions, payroll.net_salary>>

C19_OnlyEditChangesPayroll ==
    [][\A i \in DOMAIN payrolls :
          (i \notin DOMAIN payrolls' \/ payrolls'[i] # payrolls[i]) =>
              \E form \in PayrollForms : EditPayroll(i, form)]_vars

\* A payroll generated from the first structure is still as generated (its
\* professional tax is the first structure's) after the structure was saved
\* anew, a second payroll was generated from the new structure, the leave
\* request was decided and the employee's attendance was recorded
C19_Witness ==
    /\ attendances # <<>>
    /\ \E l \in DOMAIN leaves : leaves[l].status # "Pending"
    /\ \E i, j \in DOMAIN payrolls :
          /\ payrolls[i].user_id = payrolls[j].user_id
          /\ payrolls[i].professional_tax = 15000
          /\ payrolls[j].professional_tax = 20000
          /\ payrolls[j].status = "Unpaid"
          /\ payroll_settings[payrolls[i].user_id][1].professional_tax_amount = 20000

\* The days of the month that lie in each Approved leave of the user, added
\* up leave by leave
DaysOnLeave(u, month, year) ==
    LET approved == {i \in DOMAIN leaves : /\ leaves[i].user_id = u
                                           /\ leaves[i].status = "Approved"}
        in_month(i) == {d \in leaves[i].start_date..leaves[i].end_date :
                           /\ d >= FirstOfMonth(year, month)
                           /\ d <= LastOfMonth(year, month)}
    IN  SumOver([i \in approved |-> Cardinality(in_month(i))], approved)

\* C20: the leave-day total of a month is the sum, over the Approved leaves,
\* of the days of each leave clipped to the month, both ends included: 0 for
\* a leave outside the month, and overlapping leaves each counted in full.
\* Both the attendance page and the salary calculation count so.
C20_LeaveDayTotal ==
    [][\A u \in Users, month \in PayMonths, year \in PayYears :
          ListAttendance(u, month, year) =>
              /\ leave_count' = DaysOnLeave(u, month, year)
              /\ get_approved_leaves(u, month, year) = DaysOnLeave(u, month, year)]_vars

\* January 2025 counted for an employee with two Approved leaves that
\* overlap, 27 December to 5 January and 3 to 8 January: 5 + 6 days
C20_Witness ==
    /\ leave_count = 11
    /\ \E i, j \in DOMAIN leaves :
          /\ i # j
          /\ leaves[i].user_id = leaves[j].user_id
          /\ leaves[i].status = "Approved" /\ leaves[j].status = "Approved"
          /\ leaves[i].start_date = -4 /\ leaves[i].end_date = 5
          /\ leaves[j].start_date = 3 /\ leaves[j].end_date = 8

\* C21: an employee's leave-day total for a month changes only in a step
\* that approves a request of that employee touching the month; applying
\* for, rejecting and deleting a request change no total.
C21_OnlyApprovalCounts ==
    [][\A u \in Users, month \in PayMonths, year \in PayYears :
          get_approved_leaves(u, month, year)' # get_approved_leaves(u, month, year)
          => /\ \E leave_id \in DOMAIN leaves, approver \in Approvers :
                   /\ Approve(leave_id, approver)
                   /\ leaves[leave_id].status = "Pending"
                   /\ leaves[leave_id].user_id = u
                   /\ leaves[leave_id].start_date <= LastOfMonth(year, month)
                   /\ leaves[leave_id].end_date >= FirstOfMonth(year, month)
             /\ ~ \E v \in Users, form \in LeaveForms : Apply(v, form)
             /\ ~ \E leave_id \in DOMAIN leaves, approver \in Approvers :
                     Reject(leave_id, approver)
             /\ ~ \E v \in Users, leave_id \in DOMAIN leaves :
                     DeleteLeave(v, leave_id)]_vars

\* A request of January 2025 was approved and counts; another request of
\* the same employee and month was then rejected or deleted, and does not
C21_Witness ==
    /\ flashed \in {LeaveRejected, LeaveDeleted}
    /\ \E i \in DOMAIN leaves :
          /\ leaves[i].status = "Approved"
          /\ get_approved_leaves(leaves[i].user_id, 1, 2025)
             = ClippedDays(leaves[i], 1, 31)
          /\ ClippedDays(leaves[i], 1, 31) > 0

\* C22: the status of a leave request changes at most once.  A step changes
\* it only from Pending, to Approved or to Rejected; a decided request stays
\* in the table as it is, and an approve or a reject on it is reported as
\* already processed and changes neither its status nor its approver.
C22_DecidedOnce ==
    [][\A leave_id \in DOMAIN leaves :
          /\ leaves[leave_id].status # "Pending"
             => /\ leave_id \in DOMAIN leaves'
                /\ leaves'[leave_id] = leaves[leave_id]
                /\ \A approver \in Approvers :
                      Approve(leave_id, approver) \/ Reject(leave_id, approver)
                      => flashed' = LeaveProcessed /\ leaves' = leaves
          /\ /\ leaves[leave_id].status = "Pending"
             /\ leave_id \in DOMAIN leaves'
             /\ leaves'[leave_id].status # "Pending"
             => /\ leaves'[leave_id].status \in {"Approved", "Rejected"}
                /\ leaves'[leave_id].approved_by # None]_vars

\* A decided request has just been sent to approve or reject once more
C22_Witness ==
    /\ flashed = LeaveProcessed
    /\ \E leave_id \in DOMAIN leaves :
          /\ leaves[leave_id].status = "Rejected"
          /\ leaves[leave_id].approved_by # None

\* The total of a submission as the form resolves it: every row but
\* 'Fixed Allowance' at its amount, and the first 'Fixed Allowance' at what
\* is left of the wage
SubmittedTotal(form) ==
    LET wage == Micro(form.wage)
        others == {i \in DOMAIN form.components :
                      form.components[i].name # "Fixed Allowance"}
        Add(total) ==
            IF \E i \in DOMAIN form.components :
                  form.components[i].name = "Fixed Allowance"
            THEN total + Max0(wage - total)
            ELSE total
    IN  Add(SumOver([i \in others |-> FormAmount(wage, form.components, i)],
                    others))

OfMissingBasic(components) ==
    IF \E i \in DOMAIN components : components[i].name = "Basic" THEN {}
    ELSE {i \in DOMAIN components :
             /\ components[i].computation_type = "Percentage"
             /\ components[i].base_for_percentage = "Basic"}

\* Each generation from a structure without a 'Basic' resolves the
\* percentages of Basic to 0
GenerationWithoutBasic ==
    [][\A u \in Users, month \in PayMonths, year \in PayYears :
          (Generate(u, month, year) /\ resolved' # None) =>
              LET active == ActiveComponents(salary_components[u])
              IN  \A i \in OfMissingBasic(active) :
                     resolved'[1].component_amounts[active[i].name] = 0]_vars

\* C24: in a structure without a component named 'Basic' every percentage of
\* Basic resolves to 0: when payroll is generated, when the salary-structure
\* form is submitted, and in calculate_amount on the submitted rows.
C24_NoBasicResolvesToZero ==
    [][/\ \A u \in Users, month \in PayMonths, year \in PayYears :
             (Generate(u, month, year) /\ resolved' # None) =>
                 LET active == ActiveComponents(salary_components[u])
                 IN  \A i \in OfMissingBasic(active) :
                        resolved'[1].component_amounts[active[i].name] = 0
       /\ \A u \in Users, form \in CornerForms :
             SaveStructure(u, form) =>
                 \A i \in OfMissingBasic(form.components) :
                    /\ FormAmount(Micro(form.wage), form.components, i) = 0
                    /\ calculate_amount(form.components[i], Micro(form.wage), 0)
                       = 0]_vars

\* C25: every payroll, as generated from any component structure and after
\* any edit, has gross_salary = basic_salary + hra + conveyance +
\* other_allowances.
C25_GrossIsSumOfBuckets ==
    \A i \in DOMAIN payrolls :
        payrolls[i].gross_salary
          = payrolls[i].basic_salary + payrolls[i].hra + payrolls[i].conveyance
            + payrolls[i].other_allowances

\* C26: once the salary-structure form has saved a structure with wage W > 0,
\* the wage read from the stored rows is W.
C26_WageRoundTrip ==
    [][\A u \in StructureUsers, form \in StructureForms :
          SaveStructure(u, form) /\ flashed' = StructureUpdated
          => Wage(payroll_settings'[u][1], salary_components'[u])
             = Micro(form.wage)]_vars

\* The amount the form computes for row i of an accepted submission
SubmittedAmount(form, i) ==
    IF i = FirstNamed(form.components, "Fixed Allowance")
    THEN FormRemainder(Micro(form.wage), form.components)
    ELSE FormAmount(Micro(form.wage), form.components, i)

\* C27: for every submission the form accepts, the amount the form computes
\* for each component equals the amount that calculate_monthly_salary
\* computes for it from the rows the form stored and the same wage.
C27_ResolversAgree ==
    [][\A u \in StructureUsers, form \in StructureForms :
          SaveStructure(u, form) /\ flashed' = StructureUpdated
          => \A i \in DOMAIN form.components :
                SubmittedAmount(form, i)
                  = ResolvedAmounts(Micro(form.wage),
                                    ActiveComponents(salary_components'[u]))
                        [form.components[i].name]]_vars

----------------------------------------------------------------------------
\* C28: the two worked-hours implementations agree.  Whenever a check-out has
\* been appended to a day's log, Attendance.calculate_working_hours (rows
\* ordered by timestamp, each check_in paired with the next check_out) and
\* the loop of checkout (rows ordered by id, the latest check_in before each
\* check_out) give the same total once rounded to two decimals.
CheckOutAppended(id) ==
    /\ id \in DOMAIN check_logs
    /\ id \in DOMAIN check_logs'
    /\ Len(check_logs'[id]) = Len(check_logs[id]) + 1
    /\ IsCheckOut(check_logs'[id][Len(check_logs'[id])])

ImplementationsAgree(all_logs) ==
    RoundHours(calculate_working_hours(OrderedByTimestamp(all_logs)))
        = RoundHours(CheckoutTotalSeconds(all_logs))

C28_ImplementationsAgree ==
    [][\A id \in DOMAIN check_logs :
          CheckOutAppended(id) => ImplementationsAgree(check_logs'[id])]_vars

\* The same for requests executed one at a time
AgreeOneAtATime ==
    \A id \in DOMAIN check_logs : ImplementationsAgree(check_logs[id])

----------------------------------------------------------------------------
\* C29: in every reachable state every attendance row has working_hours >= 0,
\* after any sequence of check-ins, check-outs and admin create / edit
\* requests, a check-out time entered earlier than the check-in time included.
C29_WorkingHoursNotNegative ==
    \A id \in DOMAIN attendances : attendances[id].working_hours >= 0

\* The same for rows written by checkin and checkout only
CheckedHoursNotNegative ==
    \A id \in DOMAIN attendances :
        Len(check_logs[id]) > 0 => attendances[id].working_hours >= 0

----------------------------------------------------------------------------
\* C30: with the requests executed one at a time, apply refuses every range
\* that overlaps a Pending or Approved request of the same employee, with
\* its message about overlapping dates and without creating a request, so
\* that no employee has two such requests sharing a day.
OverlappingApplication(u, form) ==
    /\ form.start_date # None
    /\ form.end_date # None
    /\ form.start_date[1] <= form.end_date[1]
    /\ overlapping_leaves(u, form.start_date[1], form.end_date[1]) # {}

NoSharedDay ==
    \A i, j \in DOMAIN leaves :
        /\ i # j
        /\ leaves[i].user_id = leaves[j].user_id
        /\ leaves[i].status \in {"Pending", "Approved"}
        /\ leaves[j].status \in {"Pending", "Approved"}
        => ~ShareADay(leaves[i], leaves[j])

====
